---- MODULE Spec2Model ----
(***************************************************************************)
(* A model of the Cura health tracker: the lifestyle scorer                *)
(* (modules/scoring.py), the additive CVD risk estimate and the metric     *)
(* aggregator (modules/metrics.py), the Framingham equation                *)
(* (data/sample_input.py), the classifier's post-processing                *)
(* (modules/cvd_model.py), and the history store with its decline check    *)
(* (utils/file_io.py, modules/trend_tracking.py, modules/alerts.py).       *)
(*                                                                         *)
(* Values.  A Python value is an option: None is <<>>, a value x is <<x>>. *)
(* A dict is a function whose DOMAIN is its set of keys, so "key missing"  *)
(* and "key present, holding None" are different, as they are in Python.   *)
(*                                                                         *)
(* Numbers.  Floats are fixed-point integers.                              *)
(*  - whole units: Age, Systolic_BP, Diastolic_BP, Resting_Heart_Rate,     *)
(*    Height_cm, Weight_kg, Waist_cm, the mg/dL lab values,                *)
(*    Caffeine_cups_per_day, Sunlight_min (get_valid_int / whole inputs);  *)
(*  - hundredths: the ten lifestyle averages (rounded to 2 decimals at     *)
(*    data_collection.py:152), HbA1c_percent, Sleep_std_dev, and every     *)
(*    derived number of a MetricsRecord (BMI, Lifestyle_score, CVD_risk).  *)
(***************************************************************************)
EXTENDS Integers, Sequences, FiniteSets, TLC

VARIABLES
    user_data,  \* the HealthRecord handed to the function under study
    result,     \* what the function returned (or the error it raised)
    pc,         \* position of the running call
    edits,      \* how many times the input record was edited
    file,       \* the history file on disk
    record,     \* save_data: the HistoryEntry being appended
    all_data,   \* save_data: the list read from the file, then appended to
    before,     \* history variable: the file as save_data found it
    call,       \* check_for_decline: its arguments metrics_to_check, threshold_pct
    alerts      \* check_for_decline: what the last call returned or raised

vars == <<user_data, result, pc, edits, file, record, all_data, before, call, alerts>>

(***************************************************************************)
(* Python values and dicts                                                 *)
(***************************************************************************)
None == <<>>

Some(x) == <<x>>

IsNone(v) == Len(v) = 0

Val(v) == v[1]

\* dict.get(key): None when the key is missing
Get(d, k) == IF k \in DOMAIN d THEN d[k] ELSE None

\* dict.get(key, default)
GetOr(d, k, default) == IF k \in DOMAIN d THEN d[k] ELSE Some(default)

\* the dict without key k
Without(d, k) == [x \in DOMAIN d \ {k} |-> d[x]]

\* the dict with d[k] = v
With(d, k, v) == [x \in DOMAIN d \cup {k} |-> IF x = k THEN v ELSE d[x]]

\* {**a, **b}: the keys of both, b's value where both have the key
Merge(a, b) == [x \in DOMAIN a \cup DOMAIN b |-> IF x \in DOMAIN b THEN b[x] ELSE a[x]]

Min(a, b) == IF a <= b THEN a ELSE b

Max(a, b) == IF a >= b THEN a ELSE b

\* n / d rounded to the nearest integer, ties to even (Python's round), d > 0
RoundDiv(n, d) ==
    LET q == n \div d
        r == n % d
    IN  IF 2 * r > d \/ (2 * r = d /\ q % 2 = 1) THEN q + 1 ELSE q

(***************************************************************************)
(* What a call returned                                                    *)
(***************************************************************************)
NotCalled == [status |-> "none"]

Ok(v) == [status |-> "ok", value |-> v]

Raised(e) == [status |-> e]

(***************************************************************************)
(* modules/scoring.py: calculate_lifestyle_score                           *)
(* The running score is kept in units of 1/36000 point, the common         *)
(* denominator of the five proportional sub-scores on inputs in            *)
(* hundredths; the result is in hundredths (a multiple of 10: one decimal).*)
(***************************************************************************)
Pts(n) == 36000 * n

max_score == 100

\* 1. Physical activity
ActivityPts(data) ==
    LET v == Get(data, "Physical_activity_min")
    IN  IF IsNone(v) THEN 0
        ELSE IF Val(v) >= 15000 THEN Pts(20)
        ELSE IF Val(v) >= 9000 THEN Pts(14)
        ELSE Pts(5)

\* 2. Smoking
SmokingPts(data) ==
    LET cig == Get(data, "Cigarettes")
    IN  IF IsNone(cig) THEN 0
        ELSE IF Val(cig) = 0 THEN Pts(15)
        ELSE IF Val(cig) <= 500 THEN Pts(8)
        ELSE Pts(2)

\* 3. Diet: (min(fruits/2, 1)*0.5 + min(vegs/3, 1)*0.5) * 15
DietPts(data) ==
    LET fruits == Val(GetOr(data, "Fruits", 0))
        vegs   == Val(GetOr(data, "Vegetables", 0))
    IN  Min(1350 * fruits, 270000) + Min(900 * vegs, 270000)

\* sleep duration without the regularity bonus
SleepPtsNoBonus(data) ==
    LET sleep == Get(data, "Sleep_hours")
    IN  IF IsNone(sleep) THEN 0
        ELSE IF 700 <= Val(sleep) /\ Val(sleep) <= 900 THEN Pts(10)
        ELSE Pts(3)

\* 4. Sleep duration and regularity
SleepPts(data) ==
    LET sleep == Get(data, "Sleep_hours")
        std_dev_sleep == Get(data, "Sleep_std_dev")
        base == IF 700 <= Val(sleep) /\ Val(sleep) <= 900 THEN 10
                ELSE IF (600 <= Val(sleep) /\ Val(sleep) < 700)
                        \/ (900 < Val(sleep) /\ Val(sleep) <= 1000) THEN 6
                ELSE 3
        bonus == IF ~IsNone(std_dev_sleep) /\ Val(std_dev_sleep) < 100 THEN 2 ELSE 0
    IN  IF IsNone(sleep) THEN 0 ELSE Pts(base + bonus)

\* 5. Screen time
ScreenPts(data) ==
    LET screen == Get(data, "Screen_hours")
    IN  IF IsNone(screen) THEN 0
        ELSE IF Val(screen) <= 400 THEN Pts(8)
        ELSE IF Val(screen) <= 800 THEN Pts(5)
        ELSE Pts(2)

\* 6. Alcohol
AlcoholPts(data) ==
    LET alc == Get(data, "Alcohol_drinks")
    IN  IF IsNone(alc) THEN 0
        ELSE IF Val(alc) = 0 THEN Pts(8)
        ELSE IF Val(alc) <= 700 THEN Pts(5)
        ELSE Pts(1)

\* hydration with a default of eight glasses for an absent field
HydrationPtsDefaultEight(data) ==
    LET water == Val(GetOr(data, "Water_glasses", 800))
    IN  Min(225 * water, 180000)

\* 7. Hydration: min(water/8, 1) * 5
HydrationPts(data) ==
    LET water == Val(GetOr(data, "Water_glasses", 0))
    IN  Min(225 * water, 180000)

\* 8. Stress: max(0, (10 - stress)/9) * 5
StressPts(data) ==
    LET stress == Get(data, "Stress_level")
    IN  IF IsNone(stress) THEN 0 ELSE Max(0, 200 * (1000 - Val(stress)))

\* 9. Social interactions: min(social/5, 1) * 4
SocialPts(data) ==
    LET social == Get(data, "Social_interactions")
    IN  IF IsNone(social) THEN 0 ELSE Min(288 * Val(social), 144000)

\* str.lower() on the diet types the model uses
Lower(s) ==
    CASE s = "Omnivore"   -> "omnivore"
      [] s = "Vegetarian" -> "vegetarian"
      [] s = "Vegan"      -> "vegan"
      [] s = "Other"      -> "other"
      [] s = "Male"       -> "male"
      [] s = "Female"     -> "female"
      [] s = "M"          -> "m"
      [] s = "F"          -> "f"
      [] OTHER            -> s

\* 10. Bonus: sunlight, caffeine, diet type
BonusPts(data) ==
    LET sunlight == Get(data, "Sunlight_min")
        caffeine == Get(data, "Caffeine_cups_per_day")
        diet_type == Lower(Val(GetOr(data, "Diet_type", "")))
    IN  Pts((IF ~IsNone(sunlight) /\ Val(sunlight) >= 30 THEN 1 ELSE 0)
          + (IF ~IsNone(caffeine) /\ Val(caffeine) <= 3 THEN 1 ELSE 0)
          + (IF diet_type \in {"vegetarian", "vegan", "omnivore"} THEN 1 ELSE 0))

\* the sum before the cap, in 1/36000 point
RawScore(data) ==
    ActivityPts(data) + SmokingPts(data) + DietPts(data) + SleepPts(data)
    + ScreenPts(data) + AlcoholPts(data) + HydrationPts(data) + StressPts(data)
    + SocialPts(data) + BonusPts(data)

\* round(min(score, max_score), 1), in hundredths
calculate_lifestyle_score(data) ==
    10 * RoundDiv(Min(RawScore(data), Pts(max_score)), 3600)

(***************************************************************************)
(* modules/metrics.py: estimate_cvd_risk                                   *)
(* A statement either adds points or raises; the first statement that      *)
(* raises ends the call.  Points are in units of 1/200 (half a hundredth), *)
(* the resolution of (stress - 5) * 0.5 on a stress level in hundredths.   *)
(***************************************************************************)
Adds(p) == [pts |-> p]

Throws(e) == [err |-> e]

IsThrow(t) == "err" \in DOMAIN t

\* the first raise of a sequence of statements, or the sum of their points
RECURSIVE RunTerms(_, _)
RunTerms(terms, acc) ==
    IF terms = <<>> THEN Ok(acc)
    ELSE IF IsThrow(Head(terms)) THEN Raised(Head(terms).err)
    ELSE RunTerms(Tail(terms), acc + Head(terms).pts)

HalfPts(n) == 100 * n

AgeTerm(data) ==
    LET age == GetOr(data, "Age", 30)
    IN  IF IsNone(age) THEN Throws("TypeError")
        ELSE Adds(HalfPts(Max(Val(age) - 30, 0)))

GenderTerm(data) ==
    LET g == GetOr(data, "Gender", "Female")
    IN  IF IsNone(g) THEN Throws("AttributeError")
        ELSE Adds(IF Lower(Val(g)) = "male" THEN HalfPts(10) ELSE 0)

\* bmi = weight_kg / (height_m ** 2), compared with 30 and 25
BmiTerm(data) ==
    LET h == GetOr(data, "Height_cm", 170)
        w == GetOr(data, "Weight_kg", 70)
    IN  IF IsNone(h) \/ IsNone(w) THEN Throws("TypeError")
        ELSE IF Val(h) = 0 THEN Throws("ZeroDivisionError")
        ELSE IF Val(w) * 10000 >= 30 * Val(h) * Val(h) THEN Adds(HalfPts(10))
        ELSE IF Val(w) * 10000 >= 25 * Val(h) * Val(h) THEN Adds(HalfPts(4))
        ELSE Adds(0)

\* "a >= x or b >= y" reads b only when the first test is false
BpTerm(data) ==
    LET sbp == GetOr(data, "Systolic_BP", 120)
        dbp == GetOr(data, "Diastolic_BP", 80)
    IN  IF IsNone(sbp) THEN Throws("TypeError")
        ELSE IF Val(sbp) >= 140 THEN Adds(HalfPts(10))
        ELSE IF IsNone(dbp) THEN Throws("TypeError")
        ELSE IF Val(dbp) >= 90 THEN Adds(HalfPts(10))
        ELSE IF Val(sbp) >= 120 \/ Val(dbp) >= 80 THEN Adds(HalfPts(4))
        ELSE Adds(0)

LipidTerm(data) ==
    LET hdl == GetOr(data, "HDL_mg_dl", 50)
        ldl == GetOr(data, "LDL_mg_dl", 100)
        triglycerides == GetOr(data, "Triglycerides_mg_dl", 150)
    IN  IF IsNone(hdl) \/ IsNone(ldl) \/ IsNone(triglycerides) THEN Throws("TypeError")
        ELSE Adds(HalfPts((IF Val(hdl) < 40 THEN 6 ELSE 0)
                        + (IF Val(ldl) >= 160 THEN 10 ELSE IF Val(ldl) >= 130 THEN 4 ELSE 0)
                        + (IF Val(triglycerides) >= 200 THEN 4 ELSE 0)))

SugarTerm(data) ==
    LET glucose == GetOr(data, "Fasting_Glucose_mg_dl", 100)
        hba1c == GetOr(data, "HbA1c_percent", 500)
    IN  IF IsNone(glucose) THEN Throws("TypeError")
        ELSE IF Val(glucose) >= 126 THEN Adds(HalfPts(10))
        ELSE IF IsNone(hba1c) THEN Throws("TypeError")
        ELSE IF Val(hba1c) >= 650 THEN Adds(HalfPts(10))
        ELSE IF Val(glucose) >= 100 \/ Val(hba1c) >= 570 THEN Adds(HalfPts(4))
        ELSE Adds(0)

\* one test of one field: points when the test holds, TypeError on None
TestTerm(v, holds, p) ==
    IF IsNone(v) THEN Throws("TypeError") ELSE Adds(IF holds THEN HalfPts(p) ELSE 0)

SmokingTerm(data) ==
    LET cigarettes == GetOr(data, "Cigarettes", 0)
    IN  TestTerm(cigarettes, Val(cigarettes) > 0, 10)

AlcoholTerm(data) ==
    LET alcohol == GetOr(data, "Alcohol_drinks", 0)
    IN  TestTerm(alcohol, Val(alcohol) >= 700, 6)

ActivityTerm(data) ==
    LET activity_min == GetOr(data, "Physical_activity_min", 0)
    IN  TestTerm(activity_min, Val(activity_min) < 15000, 4)

SleepTerm(data) ==
    LET sleep_hours == GetOr(data, "Sleep_hours", 700)
    IN  TestTerm(sleep_hours, Val(sleep_hours) < 600 \/ Val(sleep_hours) > 900, 2)

DietTerm(data) ==
    LET fruits == GetOr(data, "Fruits", 0)
        vegetables == GetOr(data, "Vegetables", 0)
    IN  IF IsNone(fruits) \/ IsNone(vegetables) THEN Throws("TypeError")
        ELSE Adds(IF Val(fruits) + Val(vegetables) < 500 THEN HalfPts(4) ELSE 0)

\* max(0, (stress - 5) * 0.5)
StressTerm(data) ==
    LET stress == GetOr(data, "Stress_level", 500)
    IN  IF IsNone(stress) THEN Throws("TypeError") ELSE Adds(Max(0, Val(stress) - 500))

ScreenTerm(data) ==
    LET screen_hours == GetOr(data, "Screen_hours", 500)
    IN  TestTerm(screen_hours, Val(screen_hours) > 800, 2)

\* the sum of the terms, before the cap
RiskSum(data) ==
    RunTerms(<<AgeTerm(data), GenderTerm(data), BmiTerm(data), BpTerm(data),
               LipidTerm(data), SugarTerm(data), SmokingTerm(data), AlcoholTerm(data),
               ActivityTerm(data), SleepTerm(data), DietTerm(data), StressTerm(data),
               ScreenTerm(data)>>, 0)

\* the cap left out
CapRiskMissing(risk) == risk

\* risk = min(risk, 100)
CapRisk(risk) == Min(risk, HalfPts(200))

estimate_cvd_risk(data) ==
    LET s == RiskSum(data)
    IN  IF s.status = "ok" THEN Ok(CapRisk(s.value)) ELSE s

(***************************************************************************)
(* modules/metrics.py: calculate_metrics                                   *)
(* Each numbered section of the function either raises or sets keys of     *)
(* the MetricsRecord; the first section that raises ends the call.         *)
(***************************************************************************)
Sets(d) == [set |-> d]

\* data[key] on each of keys in turn: KeyError on a missing key, then
\* TypeError when arithmetic or a comparison meets None
Require(data, keys, then) ==
    IF \E i \in 1..Len(keys) : keys[i] \notin DOMAIN data THEN Throws("KeyError")
    ELSE IF \E i \in 1..Len(keys) : IsNone(data[keys[i]]) THEN Throws("TypeError")
    ELSE then

\* data.get(key) on each of keys, then an operation that fails on None
Need(data, keys, then) ==
    IF \E i \in 1..Len(keys) : IsNone(Get(data, keys[i])) THEN Throws("TypeError")
    ELSE then

\* 1. BMI = weight / (height/100)^2, truncated to hundredths, and its category
BmiSection(data) ==
    LET w == Val(data["Weight_kg"])
        h == Val(data["Height_cm"])
        below(x2) == 2 * w * 10000 < x2 * h * h    \* BMI < x2 / 2
        cat == IF below(37) THEN "Underweight"
               ELSE IF below(50) THEN "Normal"
               ELSE IF below(60) THEN "Overweight"
               ELSE IF below(70) THEN "Obese Class I"
               ELSE IF below(80) THEN "Obese Class II"
               ELSE "Obese Class III"
    IN  Require(data, <<"Weight_kg", "Height_cm">>,
            IF h = 0 THEN Throws("ZeroDivisionError")
            ELSE Sets([BMI |-> Some((w * 1000000) \div (h * h)),
                       BMI_category |-> Some(cat)]))

\* 2. waist-to-height ratio
WhtrSection(data) ==
    LET waist == Val(data["Waist_cm"])
        h == Val(data["Height_cm"])
        risk == IF 100 * waist < 50 * h THEN "Low"
                ELSE IF 100 * waist < 60 * h THEN "Increased"
                ELSE "Very High"
    IN  Require(data, <<"Waist_cm", "Height_cm">>,
            Sets([WHtR |-> Some((100 * waist) \div h), WHtR_risk |-> Some(risk),
                  WHtR_risk_value |-> Some(RoundDiv(100 * waist, h))]))

\* 3. blood pressure category
BPCategory(sbp, dbp) ==
    IF sbp < 120 /\ dbp < 80 THEN "Normal"
    ELSE IF 120 <= sbp /\ sbp < 130 /\ dbp < 80 THEN "Elevated"
    ELSE IF (130 <= sbp /\ sbp < 140) \/ (80 <= dbp /\ dbp < 90) THEN "Hypertension Stage 1"
    ELSE "Hypertension Stage 2 or higher"

BpSection(data) ==
    LET sbp == Val(data["Systolic_BP"])
        dbp == Val(data["Diastolic_BP"])
    IN  Require(data, <<"Systolic_BP", "Diastolic_BP">>,
            Sets([BP_category |-> Some(BPCategory(sbp, dbp)),
                  BP_risk_score |-> Some(Max(0, 5 * (sbp - 120) + 10 * (dbp - 80)))]))

\* 4. resting heart rate
HeartSection(data) ==
    LET rhr == Val(data["Resting_Heart_Rate"])
        tier == IF rhr <= 60 THEN "Optimal" ELSE IF rhr <= 80 THEN "Moderate" ELSE "High"
    IN  Require(data, <<"Resting_Heart_Rate">>,
            Sets([Resting_Heart_Rate |-> Some(rhr), Heart_Rate_Risk |-> Some(tier),
                   Estimated_RR_increment |-> Some(170 * Max(0, rhr - 70))]))

\* 5. sleep quality
SleepQuality(sleep_hrs) ==
    IF 700 <= sleep_hrs /\ sleep_hrs <= 900 THEN "Adequate"
    ELSE IF sleep_hrs < 600 THEN "Insufficient"
    ELSE "Excessive"

\* round(statistics.pstdev(xs), 2) on values in hundredths: the integer r
\* nearest to sqrt(n * sum(x^2) - sum(x)^2) / n
RECURSIVE SumSeq(_)
SumSeq(xs) == IF xs = <<>> THEN 0 ELSE Head(xs) + SumSeq(Tail(xs))

pstdev(xs) ==
    LET n == Len(xs)
        d == n * SumSeq([i \in 1..n |-> xs[i] * xs[i]]) - SumSeq(xs) * SumSeq(xs)
    IN  CHOOSE r \in 0..2400 :
            /\ (2 * r - 1) * (2 * r - 1) * n * n <= 4 * d \/ r = 0
            /\ 4 * d < (2 * r + 1) * (2 * r + 1) * n * n

SleepSection(data) ==
    LET sleep_hrs == Get(data, "Sleep_hours")
        daily == Get(data, "Daily_records")
        std == IF IsNone(daily) \/ Val(daily) = <<>> THEN None
               ELSE Some(pstdev([i \in 1..Len(Val(daily)) |-> Val(Val(daily)[i]["Sleep_hours"])]))
    IN  Need(data, <<"Sleep_hours">>,
            Sets([Sleep_std_dev |-> std,
                  Sleep_hours_avg |-> sleep_hrs,
                  Sleep_quality |-> Some(SleepQuality(Val(sleep_hrs)))]))

\* 6. screen time
ScreenSection(data) ==
    LET screen_avg == Get(data, "Screen_hours")
    IN  Need(data, <<"Screen_hours">>,
            Sets([Screen_hours_avg |-> screen_avg,
                  Sedentary_risk_flag |-> Some(Val(screen_avg) > 1000)]))

\* 7. diet quality
DietSection(data) ==
    LET fv_avg == Val(Get(data, "Fruits")) + Val(Get(data, "Vegetables"))
        tier == IF fv_avg >= 1000 THEN "Excellent"
                ELSE IF fv_avg >= 700 THEN "Good"
                ELSE IF fv_avg >= 400 THEN "Moderate"
                ELSE "Poor"
    IN  Need(data, <<"Fruits", "Vegetables">>,
            Sets([Diet_FV_servings_avg |-> Some(10 * RoundDiv(fv_avg, 10)),
                  Diet_quality |-> Some(tier)]))

\* 8. hydration
WaterSection(data) ==
    LET water_avg == Get(data, "Water_glasses")
    IN  Need(data, <<"Water_glasses">>,
            Sets([Water_glasses_avg |-> water_avg,
                  Hydration_flag |-> Some(Val(water_avg) < 800)]))

\* 9. lifestyle score and CVD risk (CVD_risk in units of 1/200)
ScoreSection(data) ==
    LET risk == estimate_cvd_risk(data)
    IN  IF risk.status # "ok" THEN Throws(risk.status)
        ELSE Sets([Lifestyle_score |-> Some(calculate_lifestyle_score(data)),
                   CVD_risk |-> Some(risk.value)])

\* 10. pass-through fields
FlagSection(data) ==
    Sets([Caffeine_cups_per_day |-> Get(data, "Caffeine_cups_per_day"),
          Sunlight_min_avg |-> Get(data, "Sunlight_exposure_min_per_day")])

\* section a, then section b: b is not run when a raises
Then(a, b) ==
    IF IsThrow(a) THEN a
    ELSE IF IsThrow(b) THEN b
    ELSE Sets(Merge(a.set, b.set))

MetricSections(data) ==
    Then(BmiSection(data), Then(WhtrSection(data), Then(BpSection(data),
    Then(HeartSection(data), Then(SleepSection(data), Then(ScreenSection(data),
    Then(DietSection(data), Then(WaterSection(data), Then(ScoreSection(data),
    FlagSection(data))))))))))

calculate_metrics(data) ==
    LET m == MetricSections(data)
    IN  IF IsThrow(m) THEN Raised(m.err) ELSE Ok(m.set)

(***************************************************************************)
(* data/sample_input.py: compute_framingham_risk, up to the linear         *)
(* predictor: the variant it selects, the indicators it derives and the    *)
(* statement at which it raises                                            *)
(***************************************************************************)
\* the sexes the coefficient table has entries for (spec section 6)
ParamSexes == {"male", "female"}

Fails(e, at) == [status |-> e, line |-> at, model |-> "none"]

\* use_lipid = all(k in user for k in [HDL, LDL, Triglycerides]): the keys are
\* looked up, their values are not
use_lipid(user) ==
    {"HDL_mg_dl", "LDL_mg_dl", "Triglycerides_mg_dl"} \subseteq DOMAIN user

model_type(user) == IF use_lipid(user) THEN "lipid" ELSE "bmi"

\* 1 if fasting glucose >= 126 or HbA1c >= 6.5 (read only when glucose < 126)
Diabetes(user) ==
    LET glucose == GetOr(user, "Fasting_Glucose_mg_dl", 0)
        hba1c == GetOr(user, "HbA1c_percent", 0)
    IN  IF Val(glucose) >= 126 THEN 1
        ELSE IF Val(hba1c) >= 650 THEN 1
        ELSE 0

DiabetesRaises(user) ==
    LET glucose == GetOr(user, "Fasting_Glucose_mg_dl", 0)
        hba1c == GetOr(user, "HbA1c_percent", 0)
    IN  IsNone(glucose) \/ (Val(glucose) < 126 /\ IsNone(hba1c))

Smoker(user) == IF Val(GetOr(user, "Cigarettes", 0)) > 0 THEN 1 ELSE 0

\* total_chol = ldl + hdl + tg / 5.0, in fifths of a mg/dL
TotalChol5(user) ==
    5 * (Val(user["LDL_mg_dl"]) + Val(user["HDL_mg_dl"])) + Val(user["Triglycerides_mg_dl"])

\* the coefficients that multiply a logarithm in xb
LogTerms(lipid, treated) ==
    {"age"} \cup (IF lipid THEN {"total_chol", "hdl_chol"} ELSE {"bmi"})
            \cup (IF treated THEN {"sbp_treated"} ELSE {"sbp_untreated"})

compute_framingham_risk(user) ==
    LET sex == GetOr(user, "Gender", "Male")
        lipid == use_lipid(user)
    IN  IF IsNone(sex) THEN Fails("AttributeError", 28)
        ELSE IF "Systolic_BP" \notin DOMAIN user THEN Fails("KeyError", 29)
        ELSE IF IsNone(GetOr(user, "Cigarettes", 0)) THEN Fails("TypeError", 31)
        ELSE IF DiabetesRaises(user) THEN Fails("TypeError", 32)
        ELSE IF "Age" \notin DOMAIN user
            THEN [Fails("KeyError", 43) EXCEPT !.model = model_type(user)]
        ELSE IF lipid /\ (\E k \in {"HDL_mg_dl", "LDL_mg_dl", "Triglycerides_mg_dl"} :
                              IsNone(user[k]))
            THEN [Fails("TypeError", 48) EXCEPT !.model = "lipid"]
        ELSE IF ~lipid /\ "Height_cm" \notin DOMAIN user
            THEN [Fails("KeyError", 50) EXCEPT !.model = "bmi"]
        ELSE IF ~lipid /\ IsNone(user["Height_cm"])
            THEN [Fails("TypeError", 50) EXCEPT !.model = "bmi"]
        ELSE IF ~lipid /\ "Weight_kg" \notin DOMAIN user
            THEN [Fails("KeyError", 51) EXCEPT !.model = "bmi"]
        ELSE IF ~lipid /\ IsNone(user["Weight_kg"])
            THEN [Fails("TypeError", 51) EXCEPT !.model = "bmi"]
        ELSE IF ~lipid /\ Val(user["Height_cm"]) = 0
            THEN [Fails("ZeroDivisionError", 51) EXCEPT !.model = "bmi"]
        ELSE IF Lower(Val(sex)) \notin ParamSexes
            THEN [Fails("KeyError", 54) EXCEPT !.model = model_type(user)]
        ELSE IF IsNone(user["Age"])
            THEN [Fails("TypeError", 61) EXCEPT !.model = model_type(user)]
        ELSE IF Val(user["Age"]) <= 0
            THEN [Fails("ValueError", 61) EXCEPT !.model = model_type(user)]
        ELSE IF lipid /\ TotalChol5(user) <= 0
            THEN [Fails("ValueError", 64) EXCEPT !.model = "lipid"]
        ELSE IF lipid /\ Val(user["HDL_mg_dl"]) <= 0
            THEN [Fails("ValueError", 65) EXCEPT !.model = "lipid"]
        ELSE IF ~lipid /\ Val(user["Weight_kg"]) <= 0
            THEN [Fails("ValueError", 67) EXCEPT !.model = "bmi"]
        ELSE IF IsNone(user["Systolic_BP"])
            THEN [Fails("TypeError", 70) EXCEPT !.model = model_type(user)]
        ELSE IF Val(user["Systolic_BP"]) <= 0
            THEN [Fails("ValueError", 70) EXCEPT !.model = model_type(user)]
        ELSE [status |-> "ok", line |-> 77, model |-> model_type(user),
              treated |-> Val(GetOr(user, "BP_Treated", FALSE)),
              total_chol |-> IF lipid THEN Some(TotalChol5(user)) ELSE None,
              sex |-> Lower(Val(sex)),
              smoker |-> Smoker(user), diabetes |-> Diabetes(user),
              logs |-> LogTerms(lipid, Val(GetOr(user, "BP_Treated", FALSE)))]

(***************************************************************************)
(* modules/cvd_model.py: predict_cvd_risk, from the classifier's raw       *)
(* probability on.  Probabilities are in units of 1/10000.                 *)
(***************************************************************************)
\* the inversion left out
FlipPolarityMissing(prob) == prob

\* if prob > 0.5: prob = 1 - prob
FlipPolarity(prob) == IF prob > 5000 THEN 10000 - prob ELSE prob

\* the clip left out
ClipProbMissing(prob) == prob

\* np.clip(prob, 0.001, 0.999)
ClipProb(prob) == Max(10, Min(prob, 9990))

\* round(prob * 100, 1), in hundredths of a percent
RiskPercent(prob) == 10 * RoundDiv(prob, 10)

RiskLevel(risk_percent) ==
    IF risk_percent < 1000 THEN "Low"
    ELSE IF risk_percent < 2000 THEN "Mild"
    ELSE IF risk_percent < 4000 THEN "Moderate"
    ELSE IF risk_percent < 6000 THEN "Elevated"
    ELSE "High"

\* what predict_cvd_risk returns when model.predict_proba gives raw
predict_cvd_risk(raw) ==
    LET prob == ClipProb(FlipPolarity(raw))
    IN  [status |-> "ok", value |-> RiskPercent(prob), prob |-> prob, raw |-> raw,
         risk_level |-> RiskLevel(RiskPercent(prob))]

(***************************************************************************)
(* modules/cvd_model.py: predict_cvd_risk, from the record to the feature  *)
(* row handed to the scaler.  Here a Python value is a tagged tuple:       *)
(*   <<"float", n>>   a finite number, n in hundredths                     *)
(*   <<"numstr", n>>  a string that float() parses to that number          *)
(*   <<"str", s>>     another string (float("nan") parses to NaN)          *)
(*   <<"None">>, <<"nan">>, <<"inf", 1>>, <<"inf", -1>>                    *)
(*   <<"huge">>       an int too large for a float (float() raises         *)
(*                    OverflowError, which clamp does not catch)           *)
(***************************************************************************)
PyFloat(n) == <<"float", n>>

PyNaN == <<"nan">>

IsFinite(v) == v[1] = "float"

\* float(value) inside clamp's try: the float, or the default on TypeError and
\* ValueError, or the OverflowError it lets through
ToFloat(value, default) ==
    CASE value[1] = "float"  -> Ok(value)
      [] value[1] = "numstr" -> Ok(PyFloat(value[2]))
      [] value[1] = "str"    -> IF value[2] = "nan" THEN Ok(PyNaN) ELSE Ok(PyFloat(default))
      [] value[1] = "None"   -> Ok(PyFloat(default))
      [] value[1] = "nan"    -> Ok(PyNaN)
      [] value[1] = "inf"    -> Ok(value)
      [] value[1] = "huge"   -> Raised("OverflowError")

\* np.clip(val, min_val, max_val): NaN stays NaN
Clip(val, min_val, max_val) ==
    CASE val[1] = "nan" -> PyNaN
      [] val[1] = "inf" -> PyFloat(IF val[2] > 0 THEN max_val ELSE min_val)
      [] OTHER          -> PyFloat(Max(min_val, Min(val[2], max_val)))

\* clamp(value, min_val, max_val, default)
clamp(value, min_val, max_val, default) ==
    LET val == ToFloat(value, default)
    IN  IF val.status = "ok" THEN Ok(Clip(val.value, min_val, max_val)) ELSE val

\* clamp(user_data.get(key, default), min_val, max_val, default), in hundredths
ClampField(user, key, min_val, max_val, default) ==
    clamp(IF key \in DOMAIN user THEN user[key] ELSE PyFloat(100 * default),
          100 * min_val, 100 * max_val, 100 * default)

\* a comparison with a float: False when the float is NaN
Less(v, bound) == IsFinite(v) /\ v[2] < bound

\* str(user_data.get('Gender', 'M')).lower().startswith('m')
StartsWithM(user) ==
    IF "Gender" \notin DOMAIN user THEN TRUE
    ELSE /\ user["Gender"][1] = "str"
         /\ user["Gender"][2] \in {"Male", "M", "male", "m"}

\* ldl + (tg / 3) + hdl, in units of 1/300
CholesterolSum(ldl, hdl, tg) ==
    IF IsFinite(ldl) /\ IsFinite(hdl) /\ IsFinite(tg)
    THEN PyFloat(3 * ldl[2] + tg[2] + 3 * hdl[2])
    ELSE PyNaN

\* rhr + (0.3 * physical_activity / 10), in units of 1/10000
HeartRateSum(rhr, physical_activity) ==
    IF IsFinite(rhr) /\ IsFinite(physical_activity)
    THEN PyFloat(100 * rhr[2] + 3 * physical_activity[2])
    ELSE PyNaN

\* round(((sbp - 120) / 40) + (stress / 5), 2), in hundredths
OldpeakSum(sbp, stress) ==
    IF IsFinite(sbp) /\ IsFinite(stress)
    THEN PyFloat(RoundDiv(sbp[2] - 12000 + 8 * stress[2], 40))
    ELSE PyNaN

\* the 0/1/2 code of stress: 0 if stress < 4 else 1 if stress < 8 else 2
StressCode(stress) == IF Less(stress, 400) THEN 0 ELSE IF Less(stress, 800) THEN 1 ELSE 2

\* the clamped fields, in the order the code computes them
ClampedFields(user) ==
    <<ClampField(user, "Age", 29, 80, 50),
      ClampField(user, "Systolic_BP", 90, 200, 120),
      ClampField(user, "Diastolic_BP", 60, 120, 80),
      ClampField(user, "LDL_mg_dl", 70, 400, 120),
      ClampField(user, "HDL_mg_dl", 20, 100, 50),
      ClampField(user, "Triglycerides_mg_dl", 50, 600, 150),
      ClampField(user, "Fasting_Glucose_mg_dl", 60, 400, 85),
      ClampField(user, "Stress_level", 0, 10, 5),
      ClampField(user, "Resting_Heart_Rate", 40, 200, 75),
      ClampField(user, "Physical_activity_min", 0, 600, 90)>>

\* the feature row after the second clip (lines 179-189), or the error raised
input_features(user) ==
    LET c == ClampedFields(user)
        age == c[1].value
        sbp == c[2].value
        ldl == c[4].value
        hdl == c[5].value
        tg == c[6].value
        fasting_glucose == c[7].value
        stress == c[8].value
        rhr == c[9].value
        physical_activity == c[10].value
        exercise_angina == IF Less(physical_activity, 9000) THEN 1 ELSE 0
        cholesterol == Clip(CholesterolSum(ldl, hdl, tg), 30000, 180000)
        max_heart_rate == Clip(HeartRateSum(rhr, physical_activity), 700000, 2000000)
        oldpeak == Clip(OldpeakSum(sbp, stress), 0, 600)
    IN  IF \E i \in DOMAIN c : c[i].status # "ok"
        THEN c[CHOOSE i \in DOMAIN c : c[i].status # "ok"
                                       /\ \A j \in 1..(i - 1) : c[j].status = "ok"]
        ELSE Ok([age |-> age,
                 sex |-> IF StartsWithM(user) THEN 1 ELSE 0,
                 exercise_angina |-> exercise_angina,
                 cholesterol |-> Clip(cholesterol, 30000, 180000),
                 max_heart_rate |-> Clip(max_heart_rate, 700000, 2000000),
                 oldpeak |-> Clip(oldpeak, 0, 600),
                 chest_pain_type |-> IF exercise_angina = 0 THEN 0 ELSE 2,
                 resting_bp_s |-> Clip(sbp, 9000, 20000),
                 fasting_blood_sugar |-> IF IsFinite(fasting_glucose)
                                            /\ fasting_glucose[2] > 12000 THEN 1 ELSE 0,
                 resting_ecg |-> StressCode(stress),
                 ST_slope |-> 2 - StressCode(stress)])

(***************************************************************************)
(* modules/data_collection.py: the prompts of ask_questions.  A typed      *)
(* answer is <<"str", text>> or, for text that reads as a finite number,   *)
(* <<"numstr", n>> with n in hundredths; a stored value is a Python float  *)
(* (hundredths), NaN, an infinity or None.                                 *)
(***************************************************************************)
\* some of the prompts of ask_questions, in the order it asks them
Questions ==
    <<[min_val |-> 500, max_val |-> 12000, key |-> "Age", kind |-> "int",
       allow_blank |-> FALSE],
      [min_val |-> 10000, max_val |-> 25000, key |-> "Height_cm", kind |-> "number",
       allow_blank |-> FALSE],
      [min_val |-> 1000, max_val |-> 12000, key |-> "HDL_mg_dl", kind |-> "number",
       allow_blank |-> TRUE],
      [min_val |-> 0, max_val |-> 0, key |-> "Water_glasses", kind |-> "routine",
       allow_blank |-> FALSE],
      [min_val |-> 0, max_val |-> 0, key |-> "Stress_level", kind |-> "routine",
       allow_blank |-> FALSE],
      [min_val |-> 0, max_val |-> 2000, key |-> "Caffeine_cups_per_day", kind |-> "int",
       allow_blank |-> FALSE]>>

\* what the user may type at a prompt
Typed ==
    {<<"str", "">>, <<"str", "abc">>, <<"str", "nan">>, <<"str", "inf">>,
     <<"numstr", -300>>, <<"numstr", 0>>, <<"numstr", 700>>, <<"numstr", 11000>>,
     <<"numstr", 100000>>}

\* float(val): ValueError on text that is no number
FloatOf(val) ==
    CASE val[1] = "numstr" -> Ok(PyFloat(val[2]))
      [] val = <<"str", "nan">> -> Ok(PyNaN)
      [] val = <<"str", "inf">> -> Ok(<<"inf", 1>>)
      [] OTHER -> Raised("ValueError")

\* one pass of get_valid_number's loop on the answer val: the value returned,
\* or "again" when the loop prompts again
get_valid_number(val, min_val, max_val, allow_blank) ==
    LET f == FloatOf(val)
        below == IsFinite(f.value) /\ f.value[2] < min_val
        above == \/ IsFinite(f.value) /\ f.value[2] > max_val
                 \/ f.value = <<"inf", 1>>
    IN  IF allow_blank /\ val = <<"str", "">> THEN Ok(<<"None">>)
        ELSE IF f.status # "ok" THEN Raised("again")
        ELSE IF below \/ above THEN Raised("again")
        ELSE Ok(f.value)

\* int(val) if val is not None else None: int() of a NaN raises ValueError
get_valid_int(val, min_val, max_val, allow_blank) ==
    LET v == get_valid_number(val, min_val, max_val, allow_blank)
    IN  IF v.status # "ok" \/ v.value = <<"None">> THEN v
        ELSE IF v.value = PyNaN THEN Raised("ValueError")
        ELSE Ok(PyFloat(100 * (v.value[2] \div 100)))

\* ask_daily_routine with one day: float(val), 0.0 when that raises ValueError
\* (a blank answer on the first day included); the average of one day is the day
ask_daily_routine(val) ==
    IF FloatOf(val).status = "ok" THEN FloatOf(val) ELSE Ok(PyFloat(0))

(***************************************************************************)
(* Input records: a base record in which at most MaxEdits times a key is   *)
(* set to another value or removed                                         *)
(***************************************************************************)
MaxEdits == 2

EmptyRecord == [k \in {} |-> None]

\* the record of scenario B (spec section 8), sleep regular
ScenarioB ==
    [Physical_activity_min |-> Some(15000), Cigarettes |-> Some(0),
     Fruits |-> Some(200), Vegetables |-> Some(300), Sleep_hours |-> Some(800),
     Sleep_std_dev |-> Some(50), Screen_hours |-> Some(400),
     Alcohol_drinks |-> Some(0), Water_glasses |-> Some(800),
     Stress_level |-> Some(500), Social_interactions |-> Some(500),
     Sunlight_min |-> Some(30), Caffeine_cups_per_day |-> Some(2),
     Diet_type |-> Some("Omnivore")]

\* one logged day of a sedentary heavy smoker, as ask_daily_routine records it
PoorDay ==
    [Physical_activity_min |-> Some(0), Cigarettes |-> Some(1500),
     Fruits |-> Some(0), Vegetables |-> Some(0), Sleep_hours |-> Some(500),
     Screen_hours |-> Some(1200), Alcohol_drinks |-> Some(800),
     Water_glasses |-> Some(0), Stress_level |-> Some(1000),
     Social_interactions |-> Some(0)]

\* one logged day of an active non-smoker
GoodDay ==
    [Physical_activity_min |-> Some(15000), Cigarettes |-> Some(0),
     Fruits |-> Some(200), Vegetables |-> Some(300), Sleep_hours |-> Some(800),
     Screen_hours |-> Some(400), Alcohol_drinks |-> Some(0),
     Water_glasses |-> Some(800), Stress_level |-> Some(500),
     Social_interactions |-> Some(500)]

\* ask_questions with days_to_log = 1: the clinical answers, the averages of the
\* one logged day (the day itself), the day in Daily_records, the extra answers
Collected(clinical, day, extras) ==
    Merge(Merge(clinical, day),
          Merge([Daily_records |-> Some(<<day>>), Days_logged |-> Some(1)], extras))

\* the first example of data/sample_input.py, with a good day
HealthyFemale ==
    Collected([Age |-> Some(32), Gender |-> Some("Female"), Height_cm |-> Some(165),
               Weight_kg |-> Some(62), Systolic_BP |-> Some(112),
               Diastolic_BP |-> Some(70), HDL_mg_dl |-> Some(58),
               LDL_mg_dl |-> Some(110), Triglycerides_mg_dl |-> Some(95),
               Fasting_Glucose_mg_dl |-> Some(88), HbA1c_percent |-> Some(510),
               Waist_cm |-> Some(70), Resting_Heart_Rate |-> Some(60)],
              GoodDay,
              [Caffeine_cups_per_day |-> Some(2), Diet_type |-> Some("Omnivore"),
               Sunlight_exposure_min_per_day |-> Some(30),
               Occupation_type |-> Some("Active")])

\* the third example of data/sample_input.py, with a poor day
UnhealthyMale ==
    Collected([Age |-> Some(55), Gender |-> Some("Male"), Height_cm |-> Some(170),
               Weight_kg |-> Some(95), Systolic_BP |-> Some(160),
               Diastolic_BP |-> Some(95), HDL_mg_dl |-> Some(35),
               LDL_mg_dl |-> Some(180), Triglycerides_mg_dl |-> Some(250),
               Fasting_Glucose_mg_dl |-> Some(160), HbA1c_percent |-> Some(700),
               Waist_cm |-> Some(110), Resting_Heart_Rate |-> Some(85)],
              PoorDay,
              [Caffeine_cups_per_day |-> Some(5), Diet_type |-> Some("Other"),
               Sunlight_exposure_min_per_day |-> Some(0),
               Occupation_type |-> Some("Sedentary")])

LifestyleFields ==
    {"Physical_activity_min", "Cigarettes", "Fruits", "Vegetables", "Sleep_hours",
     "Sleep_std_dev", "Screen_hours", "Alcohol_drinks", "Water_glasses",
     "Stress_level", "Social_interactions", "Sunlight_min",
     "Caffeine_cups_per_day", "Diet_type"}

\* the optional lab values: None when the prompt is left blank
\* (get_valid_number with allow_blank, data_collection.py:176-180)
LabFields ==
    {"HDL_mg_dl", "LDL_mg_dl", "Triglycerides_mg_dl", "Fasting_Glucose_mg_dl",
     "HbA1c_percent"}

ClinicalFields ==
    {"Age", "Gender", "Height_cm", "Weight_kg", "Waist_cm", "Systolic_BP",
     "Diastolic_BP", "Resting_Heart_Rate"} \cup LabFields

\* the values tried for a key: every branch of the rules that read it, their
\* thresholds, and the zero, negative and out-of-range values float(val)
\* accepts for a lifestyle field (data_collection.py:146)
FieldVals(k) ==
    CASE k = "Physical_activity_min" -> {-100, 0, 2143, 9000, 15000}
      [] k = "Cigarettes"            -> {0, 500, 2000}
      [] k = "Fruits"                -> {-1000, 0, 100, 200, 500}
      [] k = "Vegetables"            -> {-1000, 0, 150, 300}
      [] k = "Sleep_hours"           -> {0, 600, 650, 700, 900, 950, 1000, 1200}
      [] k = "Sleep_std_dev"         -> {0, 99, 100}
      [] k = "Screen_hours"          -> {0, 400, 800, 1200}
      [] k = "Alcohol_drinks"        -> {0, 100, 700, 800}
      [] k = "Water_glasses"         -> {-800, 0, 400, 800, 1600}
      [] k = "Stress_level"          -> {-500, 0, 100, 500, 1000, 10000}
      [] k = "Social_interactions"   -> {-500, 0, 250, 500, 1000}
      [] k = "Sunlight_min"          -> {0, 30}
      [] k = "Caffeine_cups_per_day" -> {2, 5}
      [] k = "Diet_type"             -> {"Omnivore", "Vegan", "Other"}
      [] k = "Age"                   -> {0, 25, 45, 120}
      [] k = "Gender"                -> {"Male", "Female", "M", "F", "Other"}
      [] k = "Height_cm"             -> {0, 150, 190}
      [] k = "Weight_kg"             -> {50, 70, 120}
      [] k = "Waist_cm"              -> {60, 90, 120}
      [] k = "Systolic_BP"           -> {0, 110, 125, 135, 150}
      [] k = "Diastolic_BP"          -> {70, 85, 95}
      [] k = "Resting_Heart_Rate"    -> {55, 75, 95}
      [] k = "HDL_mg_dl"             -> {35, 60}
      [] k = "LDL_mg_dl"             -> {100, 140, 170}
      [] k = "Triglycerides_mg_dl"   -> {100, 250}
      [] k = "Fasting_Glucose_mg_dl" -> {90, 110, 130}
      [] k = "HbA1c_percent"         -> {500, 600, 700}
      [] k = "BP_Treated"            -> {TRUE, FALSE}

\* the keys whose values calculate_metrics and estimate_cvd_risk branch on
MetricsFields == ClinicalFields \cup {"Stress_level", "Sleep_hours", "Cigarettes", "Fruits"}

\* d with one of keys removed, set to one of its values, or (a lab) left blank
EditsOf(d, keys) ==
    {Without(d, k) : k \in DOMAIN d \cap keys}
    \cup UNION {{With(d, k, Some(v)) : v \in FieldVals(k)} : k \in keys}
    \cup {With(d, k, None) : k \in keys \cap LabFields}

\* the history store untouched, for the specifications of the pure functions
NoFile == [state |-> "missing", entries |-> <<>>]

NoCall == [metrics_to_check |-> <<>>, threshold_pct |-> 0]

HistoryIdle ==
    /\ file = NoFile
    /\ record = None
    /\ all_data = <<>>
    /\ before = NoFile
    /\ call = NoCall
    /\ alerts = NotCalled

(***************************************************************************)
(* The records a user of the history store enters from day to day          *)
(***************************************************************************)
\* a day that scores 80: 20 + 15 + 15 + 10 + 8 + 8 + 0 + 0 + 4 + 0
Day80 ==
    [Physical_activity_min |-> Some(15000), Cigarettes |-> Some(0),
     Fruits |-> Some(200), Vegetables |-> Some(300), Sleep_hours |-> Some(800),
     Screen_hours |-> Some(400), Alcohol_drinks |-> Some(0),
     Water_glasses |-> Some(0), Stress_level |-> Some(1000),
     Social_interactions |-> Some(500)]

Visit(day, sunlight) ==
    Collected([Age |-> Some(32), Gender |-> Some("Female"), Height_cm |-> Some(165),
               Weight_kg |-> Some(62), Systolic_BP |-> Some(112),
               Diastolic_BP |-> Some(70), HDL_mg_dl |-> Some(58),
               LDL_mg_dl |-> Some(110), Triglycerides_mg_dl |-> Some(95),
               Fasting_Glucose_mg_dl |-> Some(88), HbA1c_percent |-> Some(510),
               Waist_cm |-> Some(70), Resting_Heart_Rate |-> Some(60)],
              day,
              [Caffeine_cups_per_day |-> Some(5), Diet_type |-> Some("Other"),
               Sunlight_exposure_min_per_day |-> Some(sunlight),
               Occupation_type |-> Some("Active")])

\* the same person on a day that scores 80 (spent indoors), 76 (no social
\* contact) and 70 (90 minutes of exercise, six and a half hours of sleep,
\* half an hour in the sun)
Snapshots ==
    <<Visit(Day80, 0),
      Visit([Day80 EXCEPT !.Social_interactions = Some(0)], 0),
      Visit([Day80 EXCEPT !.Physical_activity_min = Some(9000),
                          !.Sleep_hours = Some(650)], 30)>>

SnapshotMetrics == [i \in 1..Len(Snapshots) |-> calculate_metrics(Snapshots[i])]

(***************************************************************************)
(* utils/file_io.py: the HistoryEntry {data, metrics, timestamp}           *)
(* An entry's JSON text of data and metrics is named by the snapshot it    *)
(* encodes; json.dump and json.load are inverse on it.                     *)
(***************************************************************************)
Encode(data, metrics) ==
    CHOOSE i \in 1..Len(Snapshots) : Snapshots[i] = data /\ SnapshotMetrics[i].value = metrics

NewRecord(data, metrics, now) == [entry |-> Encode(data, metrics), timestamp |-> now]

DataOf(r) == Snapshots[r.entry]

MetricsOf(r) == SnapshotMetrics[r.entry].value

(***************************************************************************)
(* The history file.  Its content is "missing" (no file), "complete" (a    *)
(* JSON list of the entries) or "partial" (text that json.load rejects:    *)
(* an empty file, or a list cut off after some of its entries).            *)
(***************************************************************************)
HistoryFile(state, entries) == [state |-> state, entries |-> entries]

\* a read that takes every file for an empty list
LoadAllDataEmpty(f) == <<>>

\* json.load(f) of save_data, with its except clause: the list, or [] when the
\* file is missing or cannot be parsed
LoadAllData(f) == IF f.state = "complete" THEN f.entries ELSE <<>>

(***************************************************************************)
(* modules/trend_tracking.py: load_history                                 *)
(***************************************************************************)
\* row = {**r['data'], **r['metrics']} with the entry's timestamp
Row(r) == With(Merge(DataOf(r), MetricsOf(r)), "Timestamp", Some(r.timestamp))

\* df.sort_values('Timestamp'): rows with equal timestamps keep their order
RECURSIVE InsertRow(_, _)
InsertRow(sorted, row) ==
    IF sorted = <<>> THEN <<row>>
    ELSE IF Val(sorted[Len(sorted)]["Timestamp"]) <= Val(row["Timestamp"])
        THEN Append(sorted, row)
    ELSE Append(InsertRow(SubSeq(sorted, 1, Len(sorted) - 1), row), sorted[Len(sorted)])

RECURSIVE SortRows(_)
SortRows(rows) ==
    IF rows = <<>> THEN <<>>
    ELSE InsertRow(SortRows(SubSeq(rows, 1, Len(rows) - 1)), rows[Len(rows)])

\* the DataFrame (its rows), or the error load_history lets through: only
\* FileNotFoundError is caught; an empty list has no 'Timestamp' column
load_history(f) ==
    IF f.state = "missing" THEN Ok(<<>>)
    ELSE IF f.state = "partial" THEN Raised("JSONDecodeError")
    ELSE IF f.entries = <<>> THEN Raised("KeyError")
    ELSE Ok(SortRows([i \in 1..Len(f.entries) |-> Row(f.entries[i])]))

(***************************************************************************)
(* modules/alerts.py: check_for_decline                                    *)
(***************************************************************************)
DefaultMetrics ==
    <<"Lifestyle_score", "BMI", "Sleep_hours_per_night", "Physical_Activity_min_per_week">>

DefaultThreshold == 5

\* the division without its guard; a fraction with denominator 0 stands for
\* the division that raises ZeroDivisionError
ChangePctUnguarded(old_val, new_val) == [num |-> (new_val - old_val) * 100, den |-> old_val]

\* ((new - old) / old) * 100 if old != 0 else 0, as a fraction
ChangePct(old_val, new_val) ==
    IF old_val # 0 THEN [num |-> (new_val - old_val) * 100, den |-> old_val]
    ELSE [num |-> 0, den |-> 1]

\* change_pct < -threshold_pct, with <= in place of <
ExceedsOrMeets(change_pct, threshold_pct) ==
    IF change_pct.den > 0 THEN change_pct.num <= (0 - threshold_pct) * change_pct.den
    ELSE change_pct.num >= (0 - threshold_pct) * change_pct.den

\* change_pct < -threshold_pct
Exceeds(change_pct, threshold_pct) ==
    IF change_pct.den > 0 THEN change_pct.num < (0 - threshold_pct) * change_pct.den
    ELSE change_pct.num > (0 - threshold_pct) * change_pct.den

Abs(x) == IF x < 0 THEN 0 - x ELSE x

\* the alert text: the metric and abs(change_pct) to one decimal (in tenths)
Alert(metric, change_pct) ==
    [metric |-> metric,
     decreased_by |-> RoundDiv(10 * Abs(change_pct.num), Abs(change_pct.den))]

\* the metrics the loop does not skip: both rows hold a value
Compared(old, new, metric) == ~IsNone(Get(old, metric)) /\ ~IsNone(Get(new, metric))

\* the loop over metrics_to_check on the rows old and new
RECURSIVE DeclineAlerts(_, _, _, _)
DeclineAlerts(old, new, metrics_to_check, threshold_pct) ==
    IF metrics_to_check = <<>> THEN <<>>
    ELSE LET metric == Head(metrics_to_check)
             rest == DeclineAlerts(old, new, Tail(metrics_to_check), threshold_pct)
             change_pct == ChangePct(Val(old[metric]), Val(new[metric]))
         IN  IF ~Compared(old, new, metric) THEN rest
             ELSE IF Exceeds(change_pct, threshold_pct)
                 THEN <<Alert(metric, change_pct)>> \o rest
             ELSE rest

\* a division of the loop raises
DivisionRaises(old, new, metrics_to_check) ==
    \E i \in 1..Len(metrics_to_check) :
        /\ Compared(old, new, metrics_to_check[i])
        /\ ChangePct(Val(old[metrics_to_check[i]]), Val(new[metrics_to_check[i]])).den = 0

\* what check_for_decline returns: None on fewer than 2 rows, else the alerts
check_for_decline(f, metrics_to_check, threshold_pct) ==
    LET df == load_history(f)
        n == Len(df.value)
    IN  IF df.status # "ok" THEN df
        ELSE IF n < 2 THEN Ok(None)
        ELSE IF DivisionRaises(df.value[n - 1], df.value[n], metrics_to_check)
            THEN Raised("ZeroDivisionError")
        ELSE Ok(Some(DeclineAlerts(df.value[n - 1], df.value[n],
                                   metrics_to_check, threshold_pct)))

\* the arguments check_for_decline is called with
MetricLists ==
    {DefaultMetrics,
     <<"Lifestyle_score">>,
     <<"Sleep_hours_avg", "Physical_activity_min", "Lifestyle_score">>,
     <<"Sunlight_exposure_min_per_day", "Lifestyle_score", "BMI",
       "Sunlight_exposure_min_per_day">>,
     <<>>}

\* threshold_pct is not validated: any number is taken
Thresholds == {-1, 0, DefaultThreshold}

MaxHistory == 3

MaxTime == 2

(***************************************************************************)
(* Building the input record of a pure function                            *)
(***************************************************************************)
history == <<file, record, all_data, before, call, alerts>>

InitInput(bases, at) ==
    /\ user_data \in bases
    /\ edits = 0
    /\ result = NotCalled
    /\ pc = at
    /\ HistoryIdle

EditInput(keys, at) ==
    /\ pc = at
    /\ edits < MaxEdits
    /\ user_data' \in EditsOf(user_data, keys)
    /\ edits' = edits + 1
    /\ UNCHANGED <<result, pc, history>>

Return(at, value) ==
    /\ pc = at
    /\ result' = value
    /\ pc' = "done"
    /\ UNCHANGED <<user_data, edits, history>>

(***************************************************************************)
(* SpecScore: calculate_lifestyle_score applied to a lifestyle record      *)
(***************************************************************************)
InitScore == InitInput({EmptyRecord, ScenarioB, PoorDay}, "score")

EditScoreInput == EditInput(LifestyleFields, "score")

CallScore == Return("score", Ok(calculate_lifestyle_score(user_data)))

NextScore == EditScoreInput \/ CallScore

SpecScore == InitScore /\ [][NextScore]_vars

\* C1: for every record calculate_lifestyle_score accepts, the score v
\* satisfies 0 <= v <= 100.
C1_ScoreInRange ==
    (pc = "done" /\ result.status = "ok") =>
        (0 <= result.value /\ result.value <= 100 * max_score)

(***************************************************************************)
(* SpecMetrics: calculate_metrics applied to a HealthRecord                *)
(***************************************************************************)
InitMetrics == InitInput({HealthyFemale, UnhealthyMale}, "metrics")

EditMetricsInput == EditInput(MetricsFields, "metrics")

CallMetrics == Return("metrics", calculate_metrics(user_data))

NextMetrics == EditMetricsInput \/ CallMetrics

SpecMetrics == InitMetrics /\ [][NextMetrics]_vars

\* C9: the CVD_risk of a MetricsRecord is a percentage r with 0 <= r <= 100
\* (here in units of 1/200), for every HealthRecord the aggregator accepts.
C9_CvdRiskInRange ==
    (pc = "done" /\ result.status = "ok") =>
        /\ 0 <= Val(result.value["CVD_risk"])
        /\ Val(result.value["CVD_risk"]) <= HalfPts(200)

\* C9 witness: a MetricsRecord whose risk terms sum to more than 100, so the
\* cap decides the value
C9_Witness ==
    /\ pc = "done"
    /\ result.status = "ok"
    /\ RiskSum(user_data).value > HalfPts(200)
    /\ Val(result.value["CVD_risk"]) = HalfPts(200)

(***************************************************************************)
(* SpecFram: compute_framingham_risk applied to a HealthRecord             *)
(***************************************************************************)
InitFram == InitInput({HealthyFemale, UnhealthyMale}, "framingham")

EditFramInput == EditInput(ClinicalFields \cup {"Cigarettes", "BP_Treated"}, "framingham")

CallFram == Return("framingham", compute_framingham_risk(user_data))

NextFram == EditFramInput \/ CallFram

SpecFram == InitFram /\ [][NextFram]_vars

\* a lab value of the lipid panel is absent: its key is missing or holds None
LabAbsent(d) ==
    \E k \in {"HDL_mg_dl", "LDL_mg_dl", "Triglycerides_mg_dl"} : IsNone(Get(d, k))

\* C4: for every HealthRecord in which HDL, LDL or Triglycerides is absent
\* (key missing, or holding None), compute_framingham_risk never selects the
\* lipid variant and never fails on the missing lab value.
C4_MissingLabRoutesToBmi ==
    (pc = "done" /\ LabAbsent(user_data)) =>
        /\ result.model # "lipid"
        /\ ~(result.status = "TypeError" /\ result.line = 48)

(***************************************************************************)
(* SpecPredict: predict_cvd_risk, for every raw probability of the         *)
(* classifier                                                              *)
(***************************************************************************)
InitPredict == InitInput({HealthyFemale, UnhealthyMale}, "predict")

CallPredict == \E raw \in 0..10000 : Return("predict", predict_cvd_risk(raw))

NextPredict == CallPredict

SpecPredict == InitPredict /\ [][NextPredict]_vars

\* C10: for every raw probability in [0, 1], the probability after polarity
\* correction and clipping is in [0.001, 0.999] and the returned percentage
\* is in [0.1, 99.9].
C10_ClippedProbability ==
    pc = "done" =>
        /\ 10 <= result.prob /\ result.prob <= 9990
        /\ 10 <= result.value /\ result.value <= 9990

\* C10 witness: a raw probability of 0 is returned as 0.1 percent
C10_Witness == pc = "done" /\ result.raw = 0 /\ result.value = 10

(***************************************************************************)
(* Spec: the history store.  A process that has a record and its metrics   *)
(* calls save_data, which reads the file, reopens it for writing           *)
(* (truncating it), dumps the list and then runs check_for_decline; the    *)
(* process may be interrupted between any two of these steps.              *)
(* check_for_decline may also be called on its own, by a process that      *)
(* does nothing else.  A process that runs main.py ends in its imports.    *)
(***************************************************************************)
Init ==
    /\ file \in {HistoryFile("missing", <<>>), HistoryFile("complete", <<>>),
                 HistoryFile("partial", <<>>)}
    /\ user_data = EmptyRecord
    /\ result = NotCalled
    /\ edits = 0
    /\ pc = "idle"
    /\ record = None
    /\ all_data = <<>>
    /\ before = file
    /\ call = NoCall
    /\ alerts = NotCalled

\* a process starts: nothing of the previous one is left but the file
Start ==
    /\ pc = "idle"
    /\ pc' = "ready"
    /\ user_data' = EmptyRecord
    /\ result' = NotCalled
    /\ record' = None
    /\ all_data' = <<>>
    /\ before' = file
    /\ call' = NoCall
    /\ alerts' = NotCalled
    /\ UNCHANGED <<edits, file>>

\* main.py:1-5: the imports run before main is defined;
\* "from modules.metrics import calculate_metrics" executes metrics.py, whose
\* line 106 calls the undefined estimate_cvd_risk_extended at module level:
\* NameError, and the process ends before any stage of main
Main ==
    /\ pc = "ready"
    /\ result' = Raised("NameError")
    /\ pc' = "idle"
    /\ UNCHANGED <<user_data, edits, file, record, all_data, before, call, alerts>>

\* the stages before save_data (main.py:15-21: ask_questions,
\* calculate_metrics, generate_report), run by a process that has the functions
Collect ==
    /\ pc = "ready"
    /\ Len(file.entries) < MaxHistory
    /\ \E i \in 1..Len(Snapshots) :
        /\ SnapshotMetrics[i].status = "ok"
        /\ user_data' = Snapshots[i]
        /\ result' = SnapshotMetrics[i]
    /\ pc' = "save"
    /\ UNCHANGED <<edits, file, record, all_data, before, call, alerts>>

\* file_io.py:12-16: the record, stamped with datetime.now() (local wall-clock
\* time, which may repeat or step back between two runs)
SaveBegin ==
    /\ pc = "save"
    /\ \E now \in 1..MaxTime :
        record' = Some(NewRecord(user_data, result.value, now))
    /\ before' = file
    /\ pc' = "read"
    /\ UNCHANGED <<user_data, result, edits, file, all_data, call, alerts>>

\* file_io.py:18-24: load the list (or start an empty one) and append
SaveRead ==
    /\ pc = "read"
    /\ all_data' = Append(LoadAllData(file), Val(record))
    /\ pc' = "open"
    /\ UNCHANGED <<user_data, result, edits, file, record, before, call, alerts>>

\* file_io.py:26: open(filename, 'w') creates or truncates the file
SaveOpen ==
    /\ pc = "open"
    /\ file' = HistoryFile("partial", <<>>)
    /\ pc' = "dump"
    /\ UNCHANGED <<user_data, result, edits, record, all_data, before, call, alerts>>

\* file_io.py:27: json.dump writes the list piece by piece
SaveDump ==
    /\ pc = "dump"
    /\ Len(file.entries) < Len(all_data)
    /\ file' = HistoryFile("partial", Append(file.entries, all_data[Len(file.entries) + 1]))
    /\ UNCHANGED <<user_data, result, edits, pc, record, all_data, before, call, alerts>>

\* file_io.py:27: the closing bracket is written and the file closed
SaveClose ==
    /\ pc = "dump"
    /\ Len(file.entries) = Len(all_data)
    /\ file' = HistoryFile("complete", all_data)
    /\ pc' = "check"
    /\ UNCHANGED <<user_data, result, edits, record, all_data, before, call, alerts>>

\* file_io.py:32: check_for_decline(filename), with its default arguments
SaveCheck ==
    /\ pc = "check"
    /\ call' = [metrics_to_check |-> DefaultMetrics, threshold_pct |-> DefaultThreshold]
    /\ alerts' = check_for_decline(file, DefaultMetrics, DefaultThreshold)
    /\ pc' = "idle"
    /\ UNCHANGED <<user_data, result, edits, file, record, all_data, before>>

\* the process is killed inside save_data: the file stays as it is
Interrupt ==
    /\ pc \in {"read", "open", "dump", "check"}
    /\ pc' = "idle"
    /\ all_data' = <<>>
    /\ UNCHANGED <<user_data, result, edits, file, record, before, call, alerts>>

\* alerts.py:6: check_for_decline called on the file by a process of its own,
\* with arguments of its own
CheckDecline ==
    /\ pc = "ready"
    /\ \E metrics_to_check \in MetricLists, threshold_pct \in Thresholds :
        /\ call' = [metrics_to_check |-> metrics_to_check, threshold_pct |-> threshold_pct]
        /\ alerts' = check_for_decline(file, metrics_to_check, threshold_pct)
    /\ pc' = "idle"
    /\ UNCHANGED <<user_data, result, edits, file, record, all_data, before>>

Next ==
    \/ Start
    \/ Main
    \/ Collect
    \/ SaveBegin
    \/ SaveRead
    \/ SaveOpen
    \/ SaveDump
    \/ SaveClose
    \/ SaveCheck
    \/ Interrupt
    \/ CheckDecline

Spec == Init /\ [][Next]_vars

(***************************************************************************)
(* Properties of the history store                                         *)
(***************************************************************************)
\* the entries a file holds: those of a parsable list, none otherwise
Stored(f) == IF f.state = "complete" THEN f.entries ELSE <<>>

\* C2: when save_data has written the file, the file is a parsable list that
\* holds every entry stored before the call, unchanged and in the same order,
\* followed by exactly one entry, the new record (from a missing, parsable or
\* unparsable file alike).
C2_AppendOnly ==
    (pc = "check") =>
        file = HistoryFile("complete", Append(Stored(before), Val(record)))

C2_Witness ==
    /\ pc = "check"
    /\ before.state = "complete"
    /\ Len(before.entries) = 2
    /\ Len(file.entries) = 3

\* C3: whenever save_data has stopped, by returning or by being interrupted,
\* the file holds either what it held before the call or the previous entries
\* followed by the new one.
C3_AtomicReplace ==
    (pc = "idle" /\ record # None) =>
        \/ file = before
        \/ file = HistoryFile("complete", Append(Stored(before), Val(record)))

\* i and j are the entries with the second greatest and the greatest timestamp
LatestPair(entries, i, j) ==
    /\ i # j
    /\ entries[i].timestamp <= entries[j].timestamp
    /\ \A k \in DOMAIN entries \ {i, j} : entries[k].timestamp <= entries[i].timestamp

\* (new - old) / old * 100 < -threshold_pct on a metric both entries hold (the
\* values of an entry are not negative; the change from 0 counts as 0)
Declined(old, new, metric, threshold_pct) ==
    /\ metric \in DOMAIN old /\ old[metric] # None
    /\ metric \in DOMAIN new /\ new[metric] # None
    /\ IF Val(old[metric]) = 0 THEN 0 < 0 - threshold_pct
       ELSE (Val(new[metric]) - Val(old[metric])) * 100
                < (0 - threshold_pct) * Val(old[metric])

\* the metrics the alerts name, in the order of the alerts
AlertNames(list) == [i \in 1..Len(list) |-> list[i].metric]

\* the items of metrics_to_check that declined, in the order of the list
DeclinedNames(old, new, metrics_to_check, threshold_pct) ==
    LET Test(metric) == Declined(old, new, metric, threshold_pct)
    IN  SelectSeq(metrics_to_check, Test)

\* C5: on a history of at least 2 entries check_for_decline returns, for the
\* two entries with the greatest timestamps, one alert for each item of
\* metrics_to_check whose value fell by more than threshold_pct percent, in the
\* order of the list, and no other alert.
C5_AlertsForDeclines ==
    (alerts.status # "none" /\ file.state = "complete" /\ Len(file.entries) >= 2) =>
        /\ alerts.status = "ok"
        /\ alerts.value # None
        /\ \E i, j \in DOMAIN file.entries :
            /\ LatestPair(file.entries, i, j)
            /\ AlertNames(Val(alerts.value))
                 = DeclinedNames(Row(file.entries[i]), Row(file.entries[j]),
                                 call.metrics_to_check, call.threshold_pct)

\* the score falls from 80 to 70 between the two latest of three entries, which
\* are not the last two of the file; threshold 5: one alert, Lifestyle_score
C5_Witness ==
    /\ file.state = "complete"
    /\ Len(file.entries) = 3
    /\ file.entries[3].timestamp < file.entries[1].timestamp
    /\ file.entries[1].timestamp <= file.entries[2].timestamp
    /\ MetricsOf(file.entries[1])["Lifestyle_score"] = Some(8000)
    /\ MetricsOf(file.entries[2])["Lifestyle_score"] = Some(7000)
    /\ call = [metrics_to_check |-> DefaultMetrics, threshold_pct |-> 5]
    /\ alerts.status = "ok"
    /\ AlertNames(Val(alerts.value)) = <<"Lifestyle_score">>

\* the two rows check_for_decline compares
Compares(f) ==
    LET df == load_history(f).value
    IN  [old |-> df[Len(df) - 1], new |-> df[Len(df)]]

\* a call on a history of at least 2 entries, with a metric whose old value is 0
ZeroOldValue(metric) ==
    /\ alerts.status # "none"
    /\ file.state = "complete"
    /\ Len(file.entries) >= 2
    /\ \E i \in DOMAIN call.metrics_to_check : call.metrics_to_check[i] = metric
    /\ Get(Compares(file).old, metric) = Some(0)
    /\ Get(Compares(file).new, metric) # None

NoErrorNoAlert(metric) ==
    /\ alerts.status = "ok"
    /\ alerts.value # None
    /\ \A i \in DOMAIN Val(alerts.value) : Val(alerts.value)[i].metric # metric

\* C6 as stated: whenever the older value of a compared metric is 0, no error
\* is raised and no alert is produced for that metric.
C6_ZeroOldNoAlert ==
    \A metric \in {"Sunlight_exposure_min_per_day", "Cigarettes", "Water_glasses"} :
        ZeroOldValue(metric) => NoErrorNoAlert(metric)

\* C6, amended: whenever the older value of a compared metric is 0 and
\* threshold_pct is not negative, no error is raised and no alert is produced
\* for that metric.
C6_ZeroOldNoAlertAtThreshold ==
    \A metric \in {"Sunlight_exposure_min_per_day", "Cigarettes", "Water_glasses"} :
        (ZeroOldValue(metric) /\ call.threshold_pct >= 0) => NoErrorNoAlert(metric)

C6_Witness ==
    /\ ZeroOldValue("Sunlight_exposure_min_per_day")
    /\ Compares(file).new["Sunlight_exposure_min_per_day"] = Some(30)
    /\ call.threshold_pct = DefaultThreshold
    /\ NoErrorNoAlert("Sunlight_exposure_min_per_day")

\* C7: on a missing file, an empty list or a list of one entry
\* check_for_decline raises no error and returns no alert.
C7_InsufficientHistory ==
    (/\ alerts.status # "none"
     /\ \/ file.state = "missing"
        \/ file.state = "complete" /\ Len(file.entries) <= 1) =>
        alerts = Ok(None)

\* C8: called with its default arguments on a history whose latest entry has
\* an average of sleep hours more than 5% below that of the entry before,
\* check_for_decline returns an alert for a sleep metric.
C8_DefaultSleepAlert ==
    (/\ alerts.status = "ok"
     /\ alerts.value # None
     /\ call = [metrics_to_check |-> DefaultMetrics, threshold_pct |-> DefaultThreshold]
     /\ Declined(Compares(file).old, Compares(file).new, "Sleep_hours_avg",
                 DefaultThreshold)) =>
        \E i \in DOMAIN Val(alerts.value) :
            Val(alerts.value)[i].metric
                \in {"Sleep_hours_per_night", "Sleep_hours_avg", "Sleep_hours"}

\* C21: every run of main ends having appended exactly one HistoryEntry
\* {data, metrics, timestamp} to a complete history store, after its stages
\* collect input, calculate_metrics, generate_report and save_data.
C21_MainAppendsOneEntry ==
    [][Main => /\ result'.status = "ok"
               /\ file'.state = "complete"
               /\ Len(file'.entries) = Len(file.entries) + 1
               /\ \A i \in 1..Len(file.entries) : file'.entries[i] = file.entries[i]]_vars

(***************************************************************************)
(* SpecFeatures: the input handling of predict_cvd_risk, applied to a      *)
(* record whose fields may be missing, None, text, out of range, infinite  *)
(* or NaN                                                                  *)
(***************************************************************************)
\* the keys predict_cvd_risk reads
FeatureFields ==
    {"Age", "Gender", "Systolic_BP", "Diastolic_BP", "LDL_mg_dl", "HDL_mg_dl",
     "Triglycerides_mg_dl", "Fasting_Glucose_mg_dl", "Stress_level",
     "Resting_Heart_Rate", "Physical_activity_min"}

\* the first example of data/sample_input.py on a good day, as Python values
FeatureBase ==
    [k \in FeatureFields |->
        CASE k = "Age"                   -> PyFloat(3200)
          [] k = "Gender"                -> <<"str", "Female">>
          [] k = "Systolic_BP"           -> PyFloat(11200)
          [] k = "Diastolic_BP"          -> PyFloat(7000)
          [] k = "LDL_mg_dl"             -> PyFloat(11000)
          [] k = "HDL_mg_dl"             -> PyFloat(5800)
          [] k = "Triglycerides_mg_dl"   -> PyFloat(9500)
          [] k = "Fasting_Glucose_mg_dl" -> PyFloat(8800)
          [] k = "Stress_level"          -> PyFloat(500)
          [] k = "Resting_Heart_Rate"    -> PyFloat(6000)
          [] k = "Physical_activity_min" -> PyFloat(15000)]

\* the values a field may hold: None, text, a numeric string, numbers below,
\* inside and above every range, the infinities, NaN (which float(val) of
\* data_collection.py:97 and :146 accepts as an answer) and a huge int
PyVals(k) ==
    IF k = "Gender" THEN {<<"str", "Male">>, <<"str", "M">>, <<"str", "Other">>,
                          <<"None">>, PyFloat(100)}
    ELSE {<<"None">>, <<"str", "abc">>, <<"str", "nan">>, <<"numstr", 4500>>,
          PyFloat(-100), PyFloat(0), PyFloat(100000), <<"inf", 1>>, <<"inf", -1>>,
          PyNaN, <<"huge">>}

InitFeatures ==
    /\ user_data = FeatureBase
    /\ edits = 0
    /\ result = NotCalled
    /\ pc = "features"
    /\ HistoryIdle

EditFeatureInput ==
    /\ pc = "features"
    /\ edits < MaxEdits
    /\ \E k \in FeatureFields :
        \/ k \in DOMAIN user_data /\ user_data' = Without(user_data, k)
        \/ \E v \in PyVals(k) : user_data' = With(user_data, k, v)
    /\ edits' = edits + 1
    /\ UNCHANGED <<result, pc, history>>

CallFeatures == Return("features", input_features(user_data))

NextFeatures == EditFeatureInput \/ CallFeatures

SpecFeatures == InitFeatures /\ [][NextFeatures]_vars

\* v is a number within lo..hi
Within(v, lo, hi) == IsFinite(v) /\ lo <= v[2] /\ v[2] <= hi

\* C11: for every record, whatever its fields hold, predict_cvd_risk raises
\* no error on the record and hands the classifier a feature row with age in
\* 29..80, resting_bp_s in 90..200, cholesterol in 100..600, max_heart_rate
\* in 70..200, oldpeak in 0..6 and every binary or ordinal feature in its
\* code set.
C11_FeaturesClamped ==
    (pc = "done") =>
        /\ result.status = "ok"
        /\ Within(result.value.age, 2900, 8000)
        /\ Within(result.value.resting_bp_s, 9000, 20000)
        /\ Within(result.value.cholesterol, 30000, 180000)
        /\ Within(result.value.max_heart_rate, 700000, 2000000)
        /\ Within(result.value.oldpeak, 0, 600)
        /\ result.value.sex \in {0, 1}
        /\ result.value.chest_pain_type \in {0, 2}
        /\ result.value.fasting_blood_sugar \in {0, 1}
        /\ result.value.resting_ecg \in {0, 1, 2}
        /\ result.value.exercise_angina \in {0, 1}
        /\ result.value.ST_slope \in {0, 1, 2}

(***************************************************************************)
(* Properties of the lifestyle score's sub-scores (under SpecScore)        *)
(***************************************************************************)
\* C12: for every input record each of the ten sub-scores is within its cap:
\* activity 0..20, smoking 0..15, diet 0..15, sleep 0..12, screen 0..8,
\* alcohol 0..8, hydration 0..5, stress 0..5, social 0..4, bonus 0..3.
C12_SubScoresCapped ==
    (pc = "done") =>
        /\ 0 <= ActivityPts(user_data) /\ ActivityPts(user_data) <= Pts(20)
        /\ 0 <= SmokingPts(user_data) /\ SmokingPts(user_data) <= Pts(15)
        /\ 0 <= DietPts(user_data) /\ DietPts(user_data) <= Pts(15)
        /\ 0 <= SleepPts(user_data) /\ SleepPts(user_data) <= Pts(12)
        /\ 0 <= ScreenPts(user_data) /\ ScreenPts(user_data) <= Pts(8)
        /\ 0 <= AlcoholPts(user_data) /\ AlcoholPts(user_data) <= Pts(8)
        /\ 0 <= HydrationPts(user_data) /\ HydrationPts(user_data) <= Pts(5)
        /\ 0 <= StressPts(user_data) /\ StressPts(user_data) <= Pts(5)
        /\ 0 <= SocialPts(user_data) /\ SocialPts(user_data) <= Pts(4)
        /\ 0 <= BonusPts(user_data) /\ BonusPts(user_data) <= Pts(3)

\* C13 as stated: the scenario-B record scores 97.8, within rounding (0.05).
C13_ScenarioBScores978 ==
    (pc = "done" /\ user_data = ScenarioB) =>
        (9775 <= result.value /\ result.value <= 9785)

\* C13, amended: the scenario-B record earns the ten table sub-scores
\* 20, 15, 15, 12, 8, 8, 5, 25/9 (2.78), 4 and 3, and scores their sum
\* rounded to one decimal, 92.8.
C13_ScenarioBScores928 ==
    (pc = "done" /\ user_data = ScenarioB) =>
        /\ <<ActivityPts(user_data), SmokingPts(user_data), DietPts(user_data),
             SleepPts(user_data), ScreenPts(user_data), AlcoholPts(user_data),
             HydrationPts(user_data), 9 * StressPts(user_data),
             SocialPts(user_data), BonusPts(user_data)>>
           = <<Pts(20), Pts(15), Pts(15), Pts(12), Pts(8), Pts(8), Pts(5), Pts(25),
               Pts(4), Pts(3)>>
        /\ result = Ok(9280)

C13_Witness == pc = "done" /\ user_data = ScenarioB /\ result = Ok(9280)

\* the sub-score that reads field f, applied to record d
SubScoreOf(f, d) ==
    CASE f = "Physical_activity_min" -> ActivityPts(d)
      [] f = "Cigarettes" -> SmokingPts(d)
      [] f \in {"Fruits", "Vegetables"} -> DietPts(d)
      [] f \in {"Sleep_hours", "Sleep_std_dev"} -> SleepPts(d)
      [] f = "Screen_hours" -> ScreenPts(d)
      [] f = "Alcohol_drinks" -> AlcoholPts(d)
      [] f = "Water_glasses" -> HydrationPts(d)
      [] f = "Stress_level" -> StressPts(d)
      [] f = "Social_interactions" -> SocialPts(d)
      [] f \in {"Sunlight_min", "Caffeine_cups_per_day", "Diet_type"} -> BonusPts(d)

\* the fields a sub-score requires, named by one of them
RequiredWith(f) ==
    CASE f \in {"Fruits", "Vegetables"} -> {"Fruits", "Vegetables"}
      [] f \in {"Sleep_hours", "Sleep_std_dev"} -> {"Sleep_hours"}
      [] f \in {"Sunlight_min", "Caffeine_cups_per_day", "Diet_type"} ->
            {"Sunlight_min", "Caffeine_cups_per_day", "Diet_type"}
      [] OTHER -> {f}

\* the points field f earned in record d, in 1/36000 point
Earned(f, d) == SubScoreOf(f, d) - SubScoreOf(f, Without(d, f))

\* C14 as stated: the score returned for the record without a field f equals
\* the score returned for the record with f minus the points f earned.
C14_AbsentFieldLowersScore ==
    (pc = "done") =>
        \A f \in DOMAIN user_data :
            360 * calculate_lifestyle_score(Without(user_data, f))
                = 360 * result.value - Earned(f, user_data)

\* C14, amended: a score is returned for every record; a sub-score none of
\* whose required fields is in the record adds exactly 0 to the sum; and the
\* sum (before the cap at 100 and the rounding to one decimal) of the record
\* without a field f is the sum of the record with f minus the points f earned.
C14_AbsentFieldAddsZero ==
    (pc = "done") =>
        /\ result = Ok(calculate_lifestyle_score(user_data))
        /\ \A f \in LifestyleFields :
              (RequiredWith(f) \cap DOMAIN user_data = {}) => SubScoreOf(f, user_data) = 0
        /\ \A f \in DOMAIN user_data :
              RawScore(Without(user_data, f)) = RawScore(user_data) - Earned(f, user_data)

C14_Witness ==
    /\ pc = "done"
    /\ result.status = "ok"
    /\ "Water_glasses" \notin DOMAIN user_data
    /\ \E f \in DOMAIN user_data : Earned(f, user_data) > 0

\* modules/report.py: the weekly figure printed for a per-day average
Weekly(data, key) == 7 * Val(data[key])

\* C24: the scorer judges weekly totals, the ones the report prints: it gives
\* 20 activity points iff the weekly activity is >= 150 minutes, and 5
\* alcohol points iff the weekly drinks are > 0 and <= 7 (in hundredths).
C24_WeeklyTotalsScored ==
    (pc = "done") =>
        /\ ("Physical_activity_min" \in DOMAIN user_data) =>
              (ActivityPts(user_data) = Pts(20)
                  <=> Weekly(user_data, "Physical_activity_min") >= 15000)
        /\ ("Alcohol_drinks" \in DOMAIN user_data) =>
              (AlcoholPts(user_data) = Pts(5)
                  <=> (Weekly(user_data, "Alcohol_drinks") > 0
                       /\ Weekly(user_data, "Alcohol_drinks") <= 700))

(***************************************************************************)
(* Properties of calculate_metrics on incomplete records (under SpecMetrics)*)
(***************************************************************************)
\* C15: whenever one of Age, Gender, Height_cm, Weight_kg, Waist_cm,
\* Systolic_BP, Diastolic_BP or Resting_Heart_Rate is absent from the record,
\* calculate_metrics fails with MissingRequiredFieldError and returns no
\* MetricsRecord.
C15_MissingRequiredFieldError ==
    (pc = "done" /\ (ClinicalFields \ LabFields) \ DOMAIN user_data # {}) =>
        result.status = "MissingRequiredFieldError"

\* record d with the lab values named in ks left blank at the prompt
BlankLabs(d, ks) == [x \in DOMAIN d |-> IF x \in ks THEN None ELSE d[x]]

\* C18: for every record data collection returns in which some of HDL, LDL,
\* Triglycerides, fasting glucose and HbA1c were left blank, calculate_metrics
\* raises no error and returns a MetricsRecord.
C18_BlankLabsHandled ==
    (pc = "done" /\ \E base \in {HealthyFemale, UnhealthyMale}, ks \in SUBSET LabFields :
                        ks # {} /\ user_data = BlankLabs(base, ks)) =>
        result.status = "ok"

\* the rank of a BP category in order of severity
Severity(cat) ==
    CASE cat = "Normal" -> 0
      [] cat = "Elevated" -> 1
      [] cat = "Hypertension Stage 1" -> 2
      [] cat = "Hypertension Stage 2 or higher" -> 3

\* C27: the BP category of a MetricsRecord is monotone in severity: a reading
\* with a higher systolic BP and the same diastolic BP, or a higher diastolic
\* BP and the same systolic BP, never has a less severe category; and every
\* reading with systolic >= 140 or diastolic >= 90 is 'Hypertension Stage 2
\* or higher'.
C27_BpCategoryMonotone ==
    (pc = "done" /\ result.status = "ok") =>
        LET sbp == Val(user_data["Systolic_BP"])
            dbp == Val(user_data["Diastolic_BP"])
            cat == Val(result.value["BP_category"])
        IN  /\ \A s2 \in FieldVals("Systolic_BP") :
                  s2 >= sbp => Severity(BPCategory(s2, dbp)) >= Severity(cat)
            /\ \A d2 \in FieldVals("Diastolic_BP") :
                  d2 >= dbp => Severity(BPCategory(sbp, d2)) >= Severity(cat)
            /\ (sbp >= 140 \/ dbp >= 90) => cat = "Hypertension Stage 2 or higher"

\* C28: the Sleep_quality of a MetricsRecord is 'Adequate' iff
\* 7 <= hours <= 9, 'Insufficient' iff hours < 7 and 'Excessive' iff
\* hours > 9 (hours in hundredths).
C28_SleepQualityPartition ==
    (pc = "done" /\ result.status = "ok") =>
        LET hours == Val(user_data["Sleep_hours"])
            quality == Val(result.value["Sleep_quality"])
        IN  /\ quality = "Adequate" <=> (700 <= hours /\ hours <= 900)
            /\ quality = "Insufficient" <=> hours < 700
            /\ quality = "Excessive" <=> hours > 900

\* C23: when the sleep hours of the record's DailyRecords have a population
\* standard deviation below 1.0, the Lifestyle_score of the MetricsRecord is
\* 2 points higher than the score of the same record with a sleep standard
\* deviation of 1.0; with no DailyRecords Sleep_std_dev is None and the score
\* has no bonus.
C23_RegularSleepBonus ==
    (pc = "done" /\ result.status = "ok") =>
        LET std == result.value["Sleep_std_dev"]
            daily == Get(user_data, "Daily_records")
            irregular == calculate_lifestyle_score(With(user_data, "Sleep_std_dev", Some(100)))
        IN  IF IsNone(daily) \/ Val(daily) = <<>>
            THEN IsNone(std) /\ Val(result.value["Lifestyle_score"]) = irregular
            ELSE Val(std) < 100 => Val(result.value["Lifestyle_score"]) = irregular + 200

(***************************************************************************)
(* Properties of compute_framingham_risk on invalid records (under SpecFram)*)
(***************************************************************************)
\* field k of record d holds a number that is zero or negative
NonPositive(d, k) == ~IsNone(Get(d, k)) /\ Val(d[k]) <= 0

\* age, systolic BP, or the variant's total cholesterol or BMI is <= 0
NonPositiveInput(d) ==
    \/ NonPositive(d, "Age")
    \/ NonPositive(d, "Systolic_BP")
    \/ /\ use_lipid(d)
       /\ \A k \in {"HDL_mg_dl", "LDL_mg_dl", "Triglycerides_mg_dl"} : ~IsNone(d[k])
       /\ TotalChol5(d) <= 0
    \/ /\ ~use_lipid(d)
       /\ NonPositive(d, "Weight_kg")
       /\ ~IsNone(Get(d, "Height_cm")) /\ Val(d["Height_cm"]) # 0

\* C16: whenever age, systolic BP, or the total cholesterol (lipid variant) or
\* BMI (bmi variant) of the record is <= 0, compute_framingham_risk fails with
\* InvalidInputError and returns no risk value.
C16_NonPositiveInvalidInput ==
    (pc = "done" /\ NonPositiveInput(user_data)) =>
        result.status = "InvalidInputError"

\* C17: whenever the record's Gender, lower-cased, is not a key of the
\* coefficient table ('male', 'female'), compute_framingham_risk fails with
\* UnknownModelVariantError and computes no risk.
C17_UnknownSexVariantError ==
    (pc = "done" /\ ~IsNone(Get(user_data, "Gender"))
                 /\ Lower(Val(user_data["Gender"])) \notin ParamSexes) =>
        result.status = "UnknownModelVariantError"

\* a lab value meets a threshold; an absent one (key missing or None) does not
Meets(d, k, threshold) == ~IsNone(Get(d, k)) /\ Val(d[k]) >= threshold

\* C22: compute_framingham_risk does not fail on an absent glucose or HbA1c
\* value, and the linear predictor it computes uses the smoker indicator 1 iff
\* cigarettes > 0, the diabetes indicator 1 iff glucose >= 126 or
\* HbA1c >= 6.5, sbp_treated iff the subject is treated and else
\* sbp_untreated, the HDL term only in the lipid variant, and total
\* cholesterol LDL + HDL + TG/5 (here in fifths) in the lipid variant.
C22_PredictorTerms ==
    (pc = "done") =>
        /\ ~(result.status = "TypeError" /\ result.line = 32)
        /\ (result.status = "ok") =>
            /\ result.smoker = 1 <=> Val(GetOr(user_data, "Cigarettes", 0)) > 0
            /\ result.diabetes = 1 <=> (\/ Meets(user_data, "Fasting_Glucose_mg_dl", 126)
                                        \/ Meets(user_data, "HbA1c_percent", 650))
            /\ result.smoker \in {0, 1} /\ result.diabetes \in {0, 1}
            /\ "sbp_treated" \in result.logs <=> Val(GetOr(user_data, "BP_Treated", FALSE))
            /\ "sbp_untreated" \in result.logs <=> ~Val(GetOr(user_data, "BP_Treated", FALSE))
            /\ "hdl_chol" \in result.logs <=> result.model = "lipid"
            /\ (result.model = "lipid") =>
                  result.total_chol = Some(5 * Val(user_data["LDL_mg_dl"])
                                           + 5 * Val(user_data["HDL_mg_dl"])
                                           + Val(user_data["Triglycerides_mg_dl"]))

(***************************************************************************)
(* Properties of the polarity inversion of predict_cvd_risk (SpecPredict)  *)
(***************************************************************************)
\* how far above a raw probability the next ones are compared, in 1/10000
MaxGap == 20

\* the raw probabilities up to MaxGap above the one of the call
RawsAbove == {r \in 0..10000 : result.raw < r /\ r <= result.raw + MaxGap}

\* C26 as stated: the returned percentage is at most 50.0, the level 'High'
\* is never assigned, and above 0.5 every higher raw probability yields a
\* lower returned percentage.
C26_InvertedRiskLower ==
    (pc = "done") =>
        /\ result.value <= 5000
        /\ result.risk_level # "High"
        /\ (result.raw > 5000) =>
              \A raw2 \in RawsAbove : predict_cvd_risk(raw2).value < result.value

\* C26, amended: the returned percentage is at most 50.0, the level 'High'
\* is never assigned, and above 0.5 a higher raw probability never yields a
\* higher returned percentage; it yields a lower one when it is higher by at
\* least 0.002 and is at most 0.999 (closer together, or where both are
\* clipped to 0.001, the two round to the same tenth of a percent).
C26_InvertedRiskNotHigher ==
    (pc = "done") =>
        /\ result.value <= 5000
        /\ result.risk_level # "High"
        /\ (result.raw > 5000) =>
              \A raw2 \in RawsAbove :
                  /\ predict_cvd_risk(raw2).value <= result.value
                  /\ (raw2 >= result.raw + 20 /\ raw2 <= 9990) =>
                        predict_cvd_risk(raw2).value < result.value

\* a raw probability of 0.9 is returned as 10.0 percent, level 'Mild'
C26_Witness ==
    pc = "done" /\ result.raw = 9000 /\ result.value = 1000 /\ result.risk_level = "Mild"

(***************************************************************************)
(* SpecCollect: ask_questions, one typed answer at a time                  *)
(***************************************************************************)
\* the next prompt is answered: the answer is stored and the next question
\* asked, or the record returned after the last one; or the same prompt is
\* shown again; or int() raises and ask_questions ends with the error
Ask ==
    /\ pc = "ask"
    /\ \E val \in Typed :
        LET i == CHOOSE j \in 1..Len(Questions) :
                    /\ Questions[j].key \notin DOMAIN user_data
                    /\ \A h \in 1..(j - 1) : Questions[h].key \in DOMAIN user_data
            q == Questions[i]
            v == CASE q.kind = "number" ->
                        get_valid_number(val, q.min_val, q.max_val, q.allow_blank)
                   [] q.kind = "int" ->
                        get_valid_int(val, q.min_val, q.max_val, q.allow_blank)
                   [] q.kind = "routine" -> ask_daily_routine(val)
            data == With(user_data, q.key, v.value)
        IN  \/ /\ v.status = "ok" /\ i < Len(Questions)
               /\ user_data' = data
               /\ UNCHANGED <<result, pc, edits>>
            \/ /\ v.status = "ok" /\ i = Len(Questions)
               /\ user_data' = data
               /\ result' = Ok(data)
               /\ pc' = "done"
               /\ UNCHANGED edits
            \/ /\ v.status = "again" /\ edits < MaxEdits
               /\ edits' = edits + 1
               /\ UNCHANGED <<user_data, result, pc>>
            \/ /\ v.status = "ValueError"
               /\ result' = v
               /\ pc' = "done"
               /\ UNCHANGED <<user_data, edits>>
    /\ UNCHANGED history

\* ask_questions starts with data = {}
SpecCollect == InitInput({EmptyRecord}, "ask") /\ [][Ask]_vars

\* the stored value v is a number within lo..hi (hundredths)
StoredWithin(v, lo, hi) == IsFinite(v) /\ lo <= v[2] /\ v[2] <= hi

\* C25: whatever the user types, ask_questions ends with no error and every
\* numeric field it has stored is within its declared range (or None for a
\* lab left blank); Stress_level is in 1..10 and every lifestyle average is
\* a non-negative number.
C25_ValidatedRecord ==
    /\ result.status \in {"none", "ok"}
    /\ \A i \in 1..Len(Questions) :
          LET q == Questions[i]
          IN  (q.key \in DOMAIN user_data) =>
                  CASE q.kind = "routine" /\ q.key = "Stress_level" ->
                          StoredWithin(user_data[q.key], 100, 1000)
                    [] q.kind = "routine" /\ q.key # "Stress_level" ->
                          IsFinite(user_data[q.key]) /\ user_data[q.key][2] >= 0
                    [] OTHER ->
                          \/ q.allow_blank /\ user_data[q.key] = <<"None">>
                          \/ StoredWithin(user_data[q.key], q.min_val, q.max_val)

====
